---- MODULE Spec2Model ----
(***************************************************************************)
(* Model of cds/modules/theme/static/js/main.js: the page initialisation   *)
(* script of the CDS theme.  Two DOM-ready callbacks are registered.  The  *)
(* first bootstraps AngularJS modules on three containers, the second      *)
(* binds focus and blur handlers on the navbar search input which toggle   *)
(* the class cds-active-search on every element matching .cds-navbar-form. *)
(*                                                                         *)
(* The page is single threaded: every callback and handler runs to         *)
(* completion, so each one is one atomic action.                           *)
(***************************************************************************)
EXTENDS Integers, Sequences, FiniteSets, TLC

\* ------------------------------------------------------------------ bounds
\* Number of page elements, other than the four looked up by id, whose
\* class attribute is modelled.
MaxNodes == 2

\* --------------------------------------------------------------- literals
NULL == "null"

SearchId == "invenio-search"
FeaturedId == "cds-featured-video"
RecentId == "cds-recent-videos"
InputId == "cds-navbar-form-input"

ContainerIds == {SearchId, FeaturedId, RecentId}
AllIds == ContainerIds \cup {InputId}

NavbarFormClass == "cds-navbar-form"
ActiveClass == "cds-active-search"
OtherClass == "navbar-left"

Nodes == 1..MaxNodes

Range(s) == {s[i] : i \in 1..Len(s)}

\* Class attributes the page markup gives an element: a list of tokens.
\* The markup never carries the active class, it is a script-only flag.
InitialClassAttrs ==
  { <<NavbarFormClass>>, <<NavbarFormClass, OtherClass>>, <<OtherClass>> }

\* ---------------------------------------------------------------- state
VARIABLES
  present,        \* ids of AllIds that exist in the document
  nullRootThrows, \* the framework's answer to bootstrap(null, ...)
  classes,        \* node -> class attribute, a sequence of tokens
  hasFocus,       \* the input currently holds focus
  handlers,       \* event names bound on the input
  bootLog,        \* calls made to angular.bootstrap, in order
  bootPc,         \* first ready callback: "pending", "done" or "threw"
  readyPc,        \* second ready callback: "pending" or "done"
  last,           \* the operation that produced this state
  prior,          \* classes before that operation
  everFocused,    \* the input has received focus at some point
  handled         \* some event reached a registered handler

vars == <<present, nullRootThrows, classes, hasFocus, handlers, bootLog,
          bootPc, readyPc, last, prior, everFocused, handled>>

State ==
  [present |-> present, nullRootThrows |-> nullRootThrows,
   classes |-> classes, hasFocus |-> hasFocus, handlers |-> handlers,
   bootLog |-> bootLog, bootPc |-> bootPc, readyPc |-> readyPc,
   last |-> last, prior |-> prior, everFocused |-> everFocused,
   handled |-> handled]

Becomes(t) ==
  /\ present' = t.present
  /\ nullRootThrows' = t.nullRootThrows
  /\ classes' = t.classes
  /\ hasFocus' = t.hasFocus
  /\ handlers' = t.handlers
  /\ bootLog' = t.bootLog
  /\ bootPc' = t.bootPc
  /\ readyPc' = t.readyPc
  /\ last' = t.last
  /\ prior' = t.prior
  /\ everFocused' = t.everFocused
  /\ handled' = t.handled

\* ------------------------------------------------------- DOM primitives
\* document.getElementById(id): the element, or null when absent.
getElementById(pres, id) == IF id \in pres THEN id ELSE NULL

\* $(".cds-navbar-form"): every node whose class attribute has the token.
Matching(cls) == {n \in Nodes : NavbarFormClass \in Range(cls[n])}

\* $(sel).addClass(c) on one class attribute: appended unless present.
addClass(attr, c) == IF c \in Range(attr) THEN attr ELSE Append(attr, c)

\* $(sel).removeClass(c) on one class attribute: every occurrence removed.
removeClass(attr, c) == SelectSeq(attr, LAMBDA x : x # c)

\* ----------------------------------------------------- first callback
SearchModules == <<"cds", "angular-loading-bar", "ngDialog", "invenioSearch">>
VideoModules == <<"cds", "invenioSearch">>

BootstrapCallsTwice ==
  << [id |-> SearchId, modules |-> SearchModules],
     [id |-> FeaturedId, modules |-> VideoModules],
     [id |-> FeaturedId, modules |-> VideoModules] >>

BootstrapCallsSwapped ==
  << [id |-> SearchId, modules |-> VideoModules],
     [id |-> FeaturedId, modules |-> VideoModules],
     [id |-> RecentId, modules |-> SearchModules] >>

\* The three angular.bootstrap calls of the callback, in program order.
BootstrapCalls ==
  << [id |-> SearchId, modules |-> SearchModules],
     [id |-> FeaturedId, modules |-> VideoModules],
     [id |-> RecentId, modules |-> VideoModules] >>

\* One angular.bootstrap(root, modules) call.  The framework is external:
\* on a null root it either throws or returns, as nullRootThrows says.
bootstrapOk(throws, root) == ~(root = NULL /\ throws)

\* Run calls i.. of the callback body; an exception ends the callback.
RECURSIVE RunBootstrap(_, _, _, _)
RunBootstrap(pres, throws, i, log) ==
  IF i > Len(BootstrapCalls)
  THEN [log |-> log, pc |-> "done"]
  ELSE LET call == BootstrapCalls[i]
           root == getElementById(pres, call.id)
           ok   == bootstrapOk(throws, root)
           log2 == Append(log, [id |-> call.id, root |-> root,
                                modules |-> call.modules, ok |-> ok])
       IN IF ok
          THEN RunBootstrap(pres, throws, i + 1, log2)
          ELSE [log |-> log2, pc |-> "threw"]

AfterBootstrapReady(s) ==
  LET r == RunBootstrap(s.present, s.nullRootThrows, 1, s.bootLog)
  IN [s EXCEPT !.bootLog = r.log, !.bootPc = r.pc,
               !.last = "bootstrap", !.prior = s.classes]

\* angular.element(document).ready(function() { ... })
BootstrapReady ==
  /\ bootPc = "pending"
  /\ Becomes(AfterBootstrapReady(State))

\* ---------------------------------------------------- second callback
AfterSearchReadyFocusOnly(s) ==
  [s EXCEPT !.handlers = IF InputId \in s.present THEN {"focus"} ELSE {},
            !.readyPc = "done", !.last = "ready", !.prior = s.classes]

AfterSearchReadyNeedsBoot(s) ==
  [s EXCEPT !.handlers = IF InputId \in s.present /\ s.bootPc # "threw"
                         THEN {"focus", "blur"} ELSE {},
            !.readyPc = "done", !.last = "ready", !.prior = s.classes]

\* $('#cds-navbar-form-input').focus(fn).blur(fn): binds on the matched
\* input; an empty selection binds nothing.
AfterSearchReady(s) ==
  [s EXCEPT !.handlers = IF InputId \in s.present THEN {"focus", "blur"} ELSE {},
            !.readyPc = "done", !.last = "ready", !.prior = s.classes]

\* $(document).ready(function() { ... })
SearchReady ==
  /\ readyPc = "pending"
  /\ Becomes(AfterSearchReady(State))

\* ------------------------------------------------------------ handlers
FocusHandlerConcat(cls) ==
  [n \in Nodes |-> IF n \in Matching(cls)
                   THEN Append(cls[n], ActiveClass) ELSE cls[n]]

FocusHandlerFirstOnly(cls) ==
  [n \in Nodes |-> IF n \in Matching(cls) /\ \A m \in Matching(cls) : n <= m
                   THEN addClass(cls[n], ActiveClass) ELSE cls[n]]

FocusHandlerEverywhere(cls) ==
  [n \in Nodes |-> addClass(cls[n], ActiveClass)]

\* function() { $(".cds-navbar-form").addClass('cds-active-search'); }
FocusHandler(cls) ==
  [n \in Nodes |-> IF n \in Matching(cls)
                   THEN addClass(cls[n], ActiveClass) ELSE cls[n]]

BlurHandlerAdds(cls) ==
  [n \in Nodes |-> IF n \in Matching(cls)
                   THEN addClass(cls[n], ActiveClass) ELSE cls[n]]

BlurHandlerNoop(cls) == cls

\* function() { $(".cds-navbar-form").removeClass('cds-active-search'); }
BlurHandler(cls) ==
  [n \in Nodes |-> IF n \in Matching(cls)
                   THEN removeClass(cls[n], ActiveClass) ELSE cls[n]]

\* --------------------------------------------------------------- events
\* A focus event on the input: the bound handler, if any, runs.
FocusEvent ==
  /\ InputId \in present
  /\ hasFocus' = TRUE
  /\ everFocused' = TRUE
  /\ classes' = IF "focus" \in handlers THEN FocusHandler(classes) ELSE classes
  /\ handled' = (handled \/ "focus" \in handlers)
  /\ last' = "focus"
  /\ prior' = classes
  /\ UNCHANGED <<present, nullRootThrows, handlers, bootLog, bootPc, readyPc>>

\* A blur event on the input.
BlurEvent ==
  /\ InputId \in present
  /\ hasFocus' = FALSE
  /\ classes' = IF "blur" \in handlers THEN BlurHandler(classes) ELSE classes
  /\ handled' = (handled \/ "blur" \in handlers)
  /\ last' = "blur"
  /\ prior' = classes
  /\ UNCHANGED <<present, nullRootThrows, handlers, bootLog, bootPc, readyPc,
                 everFocused>>

\* ---------------------------------------------------------------- spec
Init ==
  /\ present \in SUBSET AllIds
  /\ nullRootThrows \in BOOLEAN
  /\ classes \in [Nodes -> InitialClassAttrs]
  /\ hasFocus \in (IF InputId \in present THEN BOOLEAN ELSE {FALSE})
  /\ handlers = {}
  /\ bootLog = <<>>
  /\ bootPc = "pending"
  /\ readyPc = "pending"
  /\ last = "load"
  /\ prior = classes
  /\ everFocused = hasFocus
  /\ handled = FALSE

Next ==
  \/ BootstrapReady
  \/ SearchReady
  \/ FocusEvent
  \/ BlurEvent

Spec == Init /\ [][Next]_vars

\* ------------------------------------------------------------- helpers
HasActive(attr) == ActiveClass \in Range(attr)

Occurrences(attr, c) == Cardinality({i \in 1..Len(attr) : attr[i] = c})

\* Log entries of the calls that named container id.
CallsFor(id) == {i \in 1..Len(bootLog) : bootLog[i].id = id}

ModulesFor(id) == IF id = SearchId THEN SearchModules ELSE VideoModules

\* The page as a user sees it, without the bookkeeping of the last step.
PageOf(s) ==
  [classes |-> s.classes, hasFocus |-> s.hasFocus, handlers |-> s.handlers,
   bootLog |-> s.bootLog, bootPc |-> s.bootPc, readyPc |-> s.readyPc]

\* ------------------------------------------------------------- claims

\* C1: on a page that holds the three containers, once the first ready
\* callback has run each container has been passed to angular.bootstrap
\* exactly once, with its own module list, and nothing else was bootstrapped.
C1_BootstrapExactlyOnce ==
  (bootPc # "pending" /\ ContainerIds \subseteq present) =>
    /\ bootPc = "done"
    /\ Len(bootLog) = Cardinality(ContainerIds)
    /\ \A id \in ContainerIds :
         /\ Cardinality(CallsFor(id)) = 1
         /\ \A i \in CallsFor(id) :
              /\ bootLog[i].root = id
              /\ bootLog[i].modules = ModulesFor(id)
              /\ bootLog[i].ok

C1_Witness ==
  /\ bootPc = "done"
  /\ ContainerIds \subseteq present
  /\ Len(bootLog) = 3

\* C2: with the handlers bound, every matching container holds
\* cds-active-search right after a focus event and lacks it right after a
\* blur event, whatever events came before.
C2_FocusSetsBlurClears ==
  /\ (last = "focus" /\ "focus" \in handlers) =>
       \A n \in Matching(classes) : HasActive(classes[n])
  /\ (last = "blur" /\ "blur" \in handlers) =>
       \A n \in Matching(classes) : ~HasActive(classes[n])

C2_Witness ==
  /\ last = "blur"
  /\ "blur" \in handlers
  /\ \E n \in Matching(classes) : HasActive(prior[n]) /\ ~HasActive(classes[n])

\* C3: a focus event on containers that already hold the class, and a blur
\* event on containers that lack it, leave every class attribute as it was;
\* the class never occurs twice in an attribute.
C3_HandlersIdempotent ==
  /\ \A n \in Nodes : Occurrences(classes[n], ActiveClass) <= 1
  /\ (last = "focus" /\ "focus" \in handlers
        /\ \A n \in Matching(prior) : HasActive(prior[n])) => classes = prior
  /\ (last = "blur" /\ "blur" \in handlers
        /\ \A n \in Matching(prior) : ~HasActive(prior[n])) => classes = prior

C3_Witness ==
  /\ last = "focus"
  /\ "focus" \in handlers
  /\ Matching(prior) # {}
  /\ \A n \in Matching(prior) : HasActive(prior[n])

\* C4: as long as the input has never received focus, no element holds
\* cds-active-search, in the initial state and after ready callbacks and
\* blur events alike.
C4_NoFocusNoActive ==
  ~everFocused => \A n \in Nodes : ~HasActive(classes[n])

C4_Witness ==
  /\ ~everFocused
  /\ last = "blur"
  /\ "blur" \in handlers
  /\ bootPc # "pending"
  /\ Matching(classes) # {}

\* C5: once the first ready callback has run, every container found in the
\* page has been bootstrapped with its module list, whether or not the
\* other two containers are there.
C5_FoundContainerBootstrapped ==
  bootPc # "pending" =>
    \A id \in ContainerIds \cap present :
      \E i \in CallsFor(id) :
        /\ bootLog[i].root = id
        /\ bootLog[i].modules = ModulesFor(id)
        /\ bootLog[i].ok

\* C6: every bootstrap call made for cds-featured-video or cds-recent-videos
\* passes the list (cds, invenioSearch), and every call made for
\* invenio-search passes (cds, angular-loading-bar, ngDialog, invenioSearch),
\* which contains every module of the shared list.
C6_ModuleLists ==
  \A i \in 1..Len(bootLog) :
    /\ bootLog[i].id \in {FeaturedId, RecentId} =>
         bootLog[i].modules = <<"cds", "invenioSearch">>
    /\ bootLog[i].id = SearchId =>
         /\ bootLog[i].modules =
              <<"cds", "angular-loading-bar", "ngDialog", "invenioSearch">>
         /\ \A j \in 1..Len(bootLog) :
              bootLog[j].id \in {FeaturedId, RecentId} =>
                Range(bootLog[j].modules) \subseteq Range(bootLog[i].modules)

C6_Witness ==
  /\ Len(bootLog) = 3
  /\ \A id \in ContainerIds : CallsFor(id) # {}

\* C7 as stated: after the second ready callback has run, a matching
\* container holds cds-active-search exactly when the input holds focus.
C7_ActiveIffFocus ==
  readyPc = "done" =>
    \A n \in Matching(classes) : HasActive(classes[n]) <=> hasFocus

\* C7 amended: after the second ready callback has run, a matching container
\* holds cds-active-search exactly when the input holds focus and a focus or
\* blur event has reached the handlers; focus gained before the handlers
\* were bound leaves the class absent.
C7_ActiveIffHandledFocus ==
  readyPc = "done" =>
    \A n \in Matching(classes) :
      HasActive(classes[n]) <=> (hasFocus /\ handled)

C7_Witness ==
  /\ readyPc = "done"
  /\ handled
  /\ hasFocus
  /\ \E n \in Matching(classes) : HasActive(classes[n])

\* C8: the two ready callbacks commute: from any state where both are still
\* to run, either order gives the same page; and the bootstrap result is
\* fixed by the document alone, whatever focus and blur events and whichever
\* callback came before it.
C8_ReadyCallbacksCommute ==
  /\ (bootPc = "pending" /\ readyPc = "pending") =>
       PageOf(AfterSearchReady(AfterBootstrapReady(State)))
         = PageOf(AfterBootstrapReady(AfterSearchReady(State)))
  /\ bootPc # "pending" =>
       /\ bootLog = RunBootstrap(present, nullRootThrows, 1, <<>>).log
       /\ bootPc = RunBootstrap(present, nullRootThrows, 1, <<>>).pc
  /\ readyPc = "done" =>
       handlers = IF InputId \in present THEN {"focus", "blur"} ELSE {}

C8_Witness ==
  /\ last = "bootstrap"
  /\ readyPc = "done"
  /\ handled
  /\ bootPc = "threw"
  /\ handlers = {"focus", "blur"}

\* C9: after a focus or blur event all elements matching .cds-navbar-form
\* agree on cds-active-search, however many there are; with none, the
\* event changes no class attribute.
C9_AllMatchingToggled ==
  last \in {"focus", "blur"} =>
    /\ \A m, n \in Matching(classes) :
         HasActive(classes[m]) <=> HasActive(classes[n])
    /\ Matching(prior) = {} => classes = prior

C9_Witness ==
  /\ last = "focus"
  /\ Cardinality(Matching(classes)) >= 2
  /\ \A n \in Matching(classes) : HasActive(classes[n]) /\ ~HasActive(prior[n])

\* C10: a focus or blur event changes nothing but the presence of
\* cds-active-search on the matching containers: their other classes, the
\* attributes of the other elements, the bound handlers and the bootstrap
\* record stay as they were.
C10_EventFrame ==
  [][(FocusEvent \/ BlurEvent) =>
       /\ \A n \in Nodes :
            SelectSeq(classes'[n], LAMBDA x : x # ActiveClass)
              = SelectSeq(classes[n], LAMBDA x : x # ActiveClass)
       /\ \A n \in Nodes \ Matching(classes) : classes'[n] = classes[n]
       /\ UNCHANGED <<handlers, bootLog, bootPc, readyPc, present>>]_vars

C10_Witness ==
  /\ last \in {"focus", "blur"}
  /\ classes # prior
  /\ \E n \in Nodes \ Matching(classes) : classes[n] = prior[n]
  /\ \E n \in Matching(classes) : OtherClass \in Range(classes[n])
  /\ bootLog # <<>>

====
